---- MODULE Spec2Model ----
(***************************************************************************)
(* QuantTrading: the OHLCV collection stage (collection.py) and the        *)
(* execution-price synthesis of the features stage (features.py).          *)
(*                                                                         *)
(* Floating-point numbers are modelled as exact rationals <<n, d>> in      *)
(* lowest terms with d > 0, extended with the three IEEE-754 specials      *)
(* +inf = <<1, 0>>, -inf = <<-1, 0>> and NaN = <<0, 0>>.  Rounding and the *)
(* sign of zero are not modelled.                                          *)
(***************************************************************************)
EXTENDS Integers, Sequences, FiniteSets, TLC

VARIABLES dfs, calls, rng, fs, loaded

vars == <<dfs, calls, rng, fs, loaded>>

(***************************************************************************)
(* Bounds                                                                  *)
(***************************************************************************)
\* Longest table (number of bars) handed to add_execution_price.
MaxRows == 2

(***************************************************************************)
(* IEEE-754 arithmetic as pandas / numpy apply it element-wise             *)
(***************************************************************************)
Abs(n) == IF n < 0 THEN -n ELSE n

Sgn(n) == IF n < 0 THEN -1 ELSE IF n > 0 THEN 1 ELSE 0

RECURSIVE GCD(_, _)
GCD(a, b) == IF b = 0 THEN a ELSE GCD(b, a % b)

Norm(n, d) ==
    IF d = 0 THEN <<Sgn(n), 0>>
    ELSE LET g == GCD(Abs(n), Abs(d))
             s == Sgn(d)
         IN  <<(s * n) \div g, (s * d) \div g>>

NaN == <<0, 0>>
PosInf == <<1, 0>>
NegInf == <<-1, 0>>
Zero == <<0, 1>>
Two == <<2, 1>>

IsNaN(x) == x = NaN
IsFinite(x) == x[2] # 0

Add(x, y) ==
    IF IsNaN(x) \/ IsNaN(y) THEN NaN
    ELSE IF ~IsFinite(x) /\ ~IsFinite(y) THEN (IF x = y THEN x ELSE NaN)
    ELSE Norm(x[1] * y[2] + y[1] * x[2], x[2] * y[2])

Neg(x) == <<-x[1], x[2]>>

Sub(x, y) == Add(x, Neg(y))

Mul(x, y) ==
    IF IsNaN(x) \/ IsNaN(y) THEN NaN
    ELSE Norm(x[1] * y[1], x[2] * y[2])

\* x / y; a zero divisor gives +-inf, or NaN for 0 / 0 (no exception is raised).
Div(x, y) ==
    IF IsNaN(x) \/ IsNaN(y) THEN NaN
    ELSE Norm(x[1] * y[2], x[2] * y[1])

\* x < y; every comparison with NaN is false.
Lt(x, y) ==
    /\ ~IsNaN(x)
    /\ ~IsNaN(y)
    /\ x # y
    /\ \/ x = NegInf
       \/ y = PosInf
       \/ IsFinite(x) /\ IsFinite(y) /\ x[1] * y[2] < y[1] * x[2]

\* x >= y; false when either side is NaN.
Ge(x, y) == ~IsNaN(x) /\ ~IsNaN(y) /\ ~Lt(x, y)

(***************************************************************************)
(* The process-wide generator behind np.random                             *)
(***************************************************************************)
\* The whole generator state (key, position, cached gaussian) is abstracted
\* to a residue; seeding overwrites all of it, a draw advances it.
RngStates == 0 .. 3

\* The constant features.py seeds the generator with.
Seed == 42

\* np.random.seed(s): the state becomes a function of s alone.
seed(s) == s % 4

\* One step of the generator.
Advance(g) == (g + 3) % 4

RECURSIVE RngAfter(_, _)
RngAfter(g, k) == IF k = 0 THEN g ELSE RngAfter(Advance(g), k - 1)

\* The standard normal deviate read off a generator state.
StdNormal(g) == Norm(2 * g - 3, 2)

\* np.random.normal(0, scale, size = n) from state g: the i-th sample is
\* scale times the i-th deviate; the generator is left n draws further.
normal(g, scale, n) ==
    [samples |-> [i \in 1 .. n |-> Mul(scale, StdNormal(RngAfter(g, i)))],
     rng |-> RngAfter(g, n)]

(***************************************************************************)
(* Tables                                                                  *)
(***************************************************************************)
\* (High, Low) of the bars the tables are built from; High >= Low >= 0.
Bars == {<<0, 0>>, <<1, 1>>, <<105, 95>>}

Derived == {"mid", "spread_est", "execution_price"}

Row(cols, b) ==
    [c \in cols |-> IF c = "High" THEN <<b[1], 1>> ELSE <<b[2], 1>>]

BarLists == UNION {[1 .. n -> Bars] : n \in 0 .. MaxRows}

Frame(cols, bs) ==
    [exists |-> TRUE, cols |-> cols, rows |-> [i \in 1 .. Len(bs) |-> Row(cols, bs[i])]]

NoFrame == [exists |-> FALSE, cols |-> {}, rows |-> <<>>]

\* row[name] = value: the cell is added, or overwritten when present.
Put(row, name, value) ==
    [c \in DOMAIN row \cup {name} |-> IF c = name THEN value ELSE row[c]]

\* A table with its rows replaced and the columns named added to it.
WithColumns(df, names, rows) ==
    [exists |-> TRUE, cols |-> df.cols \cup names, rows |-> rows]

Column(df, name) == [i \in 1 .. Len(df.rows) |-> df.rows[i][name]]

(***************************************************************************)
(* features.add_execution_price                                            *)
(***************************************************************************)
KeyErrorHigh == "KeyError: 'High'"
KeyErrorLow == "KeyError: 'Low'"
ValueErrorScale == "ValueError: scale < 0"
Returned == "returned"
NotCalled == "not called"

\* Mid with the operands subtracted instead of added.
MidBug(high, low) == Div(Sub(high, low), Two)

\* Line 47: (High + Low) / 2
Mid(high, low) == Div(Add(high, low), Two)

\* SpreadEst with the division guarded: a zero mid gives a zero spread.
SpreadEstBug(spread_coeff, high, low, mid) ==
    IF mid = Zero THEN Zero ELSE Div(Mul(spread_coeff, Sub(high, low)), mid)

\* SpreadEst with the range taken as Low - High.
SpreadEstSwapped(spread_coeff, high, low, mid) ==
    Div(Mul(spread_coeff, Sub(low, high)), mid)

\* Line 48: spread_coeff * (High - Low) / mid
SpreadEst(spread_coeff, high, low, mid) ==
    Div(Mul(spread_coeff, Sub(high, low)), mid)

\* The generator left as the caller's code left it (no seeding).
UnseededGenerator(g) == g

\* Line 50: np.random.seed(42), whatever state g the generator was in.
SeededGenerator(g) == seed(Seed)

\* Line 53: mid + spread_est / 2 + noise
Unclamped(mid, spread_est, noise) == Add(Add(mid, Div(spread_est, Two)), noise)

\* Clip without the lower bound.
ClipBug(x) == x

\* Line 54: Series.clip(lower = 0): values below 0 become 0, NaN stays NaN.
Clip(x) == IF Lt(x, Zero) THEN Zero ELSE x

\* The noise array applied in reverse order.
RowNoiseBug(noise, i, n) == noise[n + 1 - i]

\* Line 53: the noise array is added by position: row i of n gets noise[i].
RowNoise(noise, i, n) == noise[i]

\* An exception leaves the function: the table and the generator stay as the
\* statements executed so far left them.
Raise(df, g, error) == [df |-> df, rng |-> g, outcome |-> error, unclamped |-> <<>>]

\* Line 47, on one row: df['mid'] = (df['High'] + df['Low']) / 2
RowMid(row) == Put(row, "mid", Mid(row["High"], row["Low"]))

\* Line 48, on one row.
RowSpreadEst(row, spread_coeff) ==
    LET r == RowMid(row)
    IN  Put(r, "spread_est", SpreadEst(spread_coeff, r["High"], r["Low"], r["mid"]))

\* Line 53, on one row.
RowUnclamped(row, spread_coeff, noise) ==
    LET r == RowSpreadEst(row, spread_coeff)
    IN  Put(r, "execution_price", Unclamped(r["mid"], r["spread_est"], noise))

\* Line 54, on one row.
RowClipped(row, spread_coeff, noise) ==
    LET r == RowUnclamped(row, spread_coeff, noise)
    IN  Put(r, "execution_price", Clip(r["execution_price"]))

\* Lines 47-56 once both input columns have been looked up; every statement
\* is element-wise, so each is applied row by row.
Augment(df, spread_coeff, sigma_noise, g) ==
    LET n == Len(df.rows)
        g1 == SeededGenerator(g)
    IN  IF Lt(sigma_noise, Zero)
        THEN Raise(WithColumns(df, {"mid", "spread_est"},
                       [i \in 1 .. n |-> RowSpreadEst(df.rows[i], spread_coeff)]),
                   g1, ValueErrorScale)
        ELSE LET draw == normal(g1, sigma_noise, n)
             IN  [df |-> WithColumns(df, Derived,
                            [i \in 1 .. n |->
                                RowClipped(df.rows[i], spread_coeff,
                                           RowNoise(draw.samples, i, n))]),
                  rng |-> draw.rng,
                  outcome |-> Returned,
                  unclamped |->
                      [i \in 1 .. n |->
                          RowUnclamped(df.rows[i], spread_coeff,
                                       RowNoise(draw.samples, i, n))["execution_price"]]]

\* add_execution_price writing df['mid'] from High before Low is looked up.
add_execution_price_bug(df, spread_coeff, sigma_noise, g) ==
    IF "High" \notin df.cols THEN Raise(df, g, KeyErrorHigh)
    ELSE IF "Low" \notin df.cols
         THEN Raise(WithColumns(df, {"mid"},
                        [i \in 1 .. Len(df.rows) |->
                            Put(df.rows[i], "mid", df.rows[i]["High"])]),
                    g, KeyErrorLow)
    ELSE Augment(df, spread_coeff, sigma_noise, g)

add_execution_price(df, spread_coeff, sigma_noise, g) ==
    IF "High" \notin df.cols THEN Raise(df, g, KeyErrorHigh)
    ELSE IF "Low" \notin df.cols THEN Raise(df, g, KeyErrorLow)
    ELSE Augment(df, spread_coeff, sigma_noise, g)

(***************************************************************************)
(* State machine: one table                                                *)
(***************************************************************************)
Coeffs == {<<-1, 10>>, <<1, 10>>, <<1, 2>>}
Sigmas == {<<-1, 1>>, <<1, 100>>, <<3, 1>>}

NoCall == [outcome |-> NotCalled, spread_coeff |-> Zero, sigma_noise |-> Zero,
           unclamped |-> <<>>]

InputColumns == {{"High", "Low"}, {"High"}, {"Low"}, {}}

\* The working directory holds no CSV file yet; load_ohlcv_data has not run.
NoFiles == <<>>
NoData == [index |-> <<>>, columns |-> <<>>, rows |-> <<>>]
NotLoaded == [outcome |-> NotCalled, file_path |-> "", df |-> NoData]

Init ==
    /\ \E cols \in InputColumns, bs \in BarLists : dfs = <<Frame(cols, bs), NoFrame>>
    /\ calls = <<NoCall, NoCall>>
    /\ rng \in RngStates
    /\ fs = NoFiles
    /\ loaded = NotLoaded

\* add_execution_price(dfs[t], spread_coeff, sigma_noise)
AddExecutionPrice(t, spread_coeff, sigma_noise) ==
    /\ dfs[t].exists
    /\ \E r \in {add_execution_price(dfs[t], spread_coeff, sigma_noise, rng)} :
           /\ dfs' = [dfs EXCEPT ![t] = r.df]
           /\ rng' = r.rng
           /\ calls' = [calls EXCEPT ![t] = [outcome |-> r.outcome,
                                             spread_coeff |-> spread_coeff,
                                             sigma_noise |-> sigma_noise,
                                             unclamped |-> r.unclamped]]
    /\ UNCHANGED <<fs, loaded>>

\* Any other code of the process drawing from the process-wide generator.
OtherRandomUse ==
    /\ rng' = Advance(rng)
    /\ UNCHANGED <<dfs, calls, fs, loaded>>

Next ==
    \/ \E c \in Coeffs, s \in Sigmas : AddExecutionPrice(1, c, s)
    \/ OtherRandomUse

Spec == Init /\ [][Next]_vars

(***************************************************************************)
(* State machine: two tables, the second one a copy, a permutation, a      *)
(* shortening or a lengthening of the first                                *)
(***************************************************************************)
Swap(bs, i, j) ==
    [k \in 1 .. Len(bs) |-> IF k = i THEN bs[j] ELSE IF k = j THEN bs[i] ELSE bs[k]]

Drop(bs, i) ==
    [k \in 1 .. Len(bs) - 1 |-> IF k < i THEN bs[k] ELSE bs[k + 1]]

Insert(bs, i, b) ==
    [k \in 1 .. Len(bs) + 1 |-> IF k < i THEN bs[k] ELSE IF k = i THEN b ELSE bs[k - 1]]

Related(bs) ==
    {bs}
    \cup {Swap(bs, i, j) : i, j \in 1 .. Len(bs)}
    \cup {Drop(bs, i) : i \in 1 .. Len(bs)}
    \cup (IF Len(bs) < MaxRows
          THEN {Insert(bs, i, b) : i \in 1 .. Len(bs) + 1, b \in Bars}
          ELSE {})

InitPair ==
    /\ \E bs \in BarLists : \E bs2 \in Related(bs) :
          dfs = <<Frame({"High", "Low"}, bs), Frame({"High", "Low"}, bs2)>>
    /\ calls = <<NoCall, NoCall>>
    /\ rng \in RngStates
    /\ fs = NoFiles
    /\ loaded = NotLoaded

\* Each of the two tables is augmented once, with a non-negative sigma_noise.
FirstCall(t, spread_coeff, sigma_noise) ==
    /\ calls[t].outcome = NotCalled
    /\ ~Lt(sigma_noise, Zero)
    /\ AddExecutionPrice(t, spread_coeff, sigma_noise)

NextPair ==
    \/ \E t \in 1 .. 2, c \in Coeffs, s \in Sigmas : FirstCall(t, c, s)
    \/ OtherRandomUse

SpecPair == InitPair /\ [][NextPair]_vars

(***************************************************************************)
(* collection.get_ohlcv_data, features.load_ohlcv_data and the CSV file    *)
(* between them.  A frame is [index, columns, rows]: the names of the      *)
(* index levels (outermost first), the names of the columns, and the rows  *)
(* in order, each [key, cells].  Of the price columns only High and Low    *)
(* are carried.                                                            *)
(***************************************************************************)
Tickers == {"A.NS", "B.NS"}

\* The lists of distinct tickers handed to get_ohlcv_data.
TickerLists ==
    {<<>>} \cup {<<a>> : a \in Tickers}
           \cup {l \in Tickers \X Tickers : l[1] # l[2]}

\* Trading days as yyyymmdd, one before and one after min_start_date.
Dates == <<20090105, 20090302>>

\* The price histories a download returns: from the first trading day on,
\* or from a later listing date on.
Histories == {Dates, Tail(Dates)}

\* filter_tickers(data, min_start_date = "2009-02-01")
MinStartDate == 20090201

OhlcvFile == "ohlcv_data.csv"
ArchiveFile == "archive.csv"
Paths == {OhlcvFile, ArchiveFile}

FileNotFound == "FileNotFoundError"

\* yf.download(ticker, ..., multi_level_index = False) followed by
\* stock_data['Ticker'] = ticker: rows keyed by date, the ticker as last column.
StockData(ticker, history, bar, adj) ==
    [index |-> <<"Date">>,
     columns |-> (IF adj THEN <<"Adj Close">> ELSE <<>>) \o <<"High", "Low", "Ticker">>,
     rows |-> [i \in 1 .. Len(history) |->
                 [key |-> <<history[i]>>,
                  cells |-> (IF adj THEN <<<<bar[2], 1>>>> ELSE <<>>)
                            \o <<<<bar[1], 1>>, <<bar[2], 1>>, ticker>>]]]

\* pd.concat([data, stock_data]) over the tickers in order.
RECURSIVE Concat(_, _, _, _)
Concat(tickers, history, bar, adj) ==
    IF tickers = <<>> THEN NoData
    ELSE LET n == Len(tickers)
             head == Concat(SubSeq(tickers, 1, n - 1), history, bar, adj)
             last == StockData(tickers[n], history[tickers[n]], bar, adj)
         IN  [index |-> last.index, columns |-> last.columns,
              rows |-> head.rows \o last.rows]

Position(seq, x) == CHOOSE i \in 1 .. Len(seq) : seq[i] = x

Without(seq, i) == [k \in 1 .. Len(seq) - 1 |-> IF k < i THEN seq[k] ELSE seq[k + 1]]

\* data.drop(columns = [name])
DropColumn(data, name) ==
    LET i == Position(data.columns, name)
    IN  [data EXCEPT !.columns = Without(data.columns, i),
                     !.rows = [k \in 1 .. Len(data.rows) |->
                                 [data.rows[k] EXCEPT !.cells = Without(data.rows[k].cells, i)]]]

\* data.set_index(name, append = True): the column becomes the innermost level.
SetIndexAppend(data, name) ==
    LET i == Position(data.columns, name)
    IN  [index |-> Append(data.index, name),
         columns |-> Without(data.columns, i),
         rows |-> [k \in 1 .. Len(data.rows) |->
                     [key |-> Append(data.rows[k].key, data.rows[k].cells[i]),
                      cells |-> Without(data.rows[k].cells, i)]]]

\* data.reorder_levels(names)
ReorderLevels(data, names) ==
    [data EXCEPT !.index = names,
                 !.rows = [k \in 1 .. Len(data.rows) |->
                             [data.rows[k] EXCEPT !.key =
                                 [j \in 1 .. Len(names) |->
                                     data.rows[k].key[Position(data.index, names[j])]]]]]

LevelValue(data, row, level) == row.key[Position(data.index, level)]

\* collection.filter_tickers: the tickers whose first date is after min_start_date.
filter_tickers(data, min_start_date) ==
    {t \in {LevelValue(data, data.rows[k], "Ticker") : k \in 1 .. Len(data.rows)} :
        \A k \in 1 .. Len(data.rows) :
            LevelValue(data, data.rows[k], "Ticker") = t
                => LevelValue(data, data.rows[k], "Date") > min_start_date}

\* data.drop(index = labels, level = level)
DropIndex(data, labels, level) ==
    [data EXCEPT !.rows = SelectSeq(data.rows,
                              LAMBDA r : LevelValue(data, r, level) \notin labels)]

\* data.to_csv(path): a header line of the index level names followed by the
\* column names, then one line per row; dates are written as text.
ToCsv(data) ==
    [header |-> data.index \o data.columns,
     lines |-> [k \in 1 .. Len(data.rows) |->
                  [j \in 1 .. Len(data.index) |->
                      IF data.index[j] = "Date" THEN ToString(data.rows[k].key[j])
                      ELSE data.rows[k].key[j]]
                  \o data.rows[k].cells]]

\* pd.read_csv(path, index_col = index_col): the columns at the 0-based
\* positions index_col become the index levels, in the order given.
ReadCsv(csv, index_col) ==
    LET n == Len(csv.header)
        taken == {index_col[j] + 1 : j \in 1 .. Len(index_col)}
        rest == SelectSeq([i \in 1 .. n |-> i], LAMBDA i : i \notin taken)
    IN  [index |-> [j \in 1 .. Len(index_col) |-> csv.header[index_col[j] + 1]],
         columns |-> [j \in 1 .. Len(rest) |-> csv.header[rest[j]]],
         rows |-> [k \in 1 .. Len(csv.lines) |->
                     [key |-> [j \in 1 .. Len(index_col) |-> csv.lines[k][index_col[j] + 1]],
                      cells |-> [j \in 1 .. Len(rest) |-> csv.lines[k][rest[j]]]]]]

HasFile(files, path) == \E i \in 1 .. Len(files) : files[i].path = path

FileAt(files, path) == files[Position([i \in 1 .. Len(files) |-> files[i].path], path)].csv

WriteFile(files, path, csv) ==
    IF HasFile(files, path)
    THEN [i \in 1 .. Len(files) |->
             IF files[i].path = path THEN [path |-> path, csv |-> csv] ELSE files[i]]
    ELSE Append(files, [path |-> path, csv |-> csv])

\* collection.get_ohlcv_data, lines 78-100: the frame written to ohlcv_data.csv.
get_ohlcv_data(tickers, history, bar, adj) ==
    LET data0 == Concat(tickers, history, bar, adj)
        data1 == IF \E i \in 1 .. Len(data0.columns) : data0.columns[i] = "Adj Close"
                 THEN DropColumn(data0, "Adj Close") ELSE data0
        data2 == [data1 EXCEPT !.index = <<"Date">>]
        data3 == SetIndexAppend(data2, "Ticker")
        data4 == ReorderLevels(data3, <<"Ticker", "Date">>)
        bust_tickers == filter_tickers(data4, MinStartDate)
    IN  DropIndex(data4, bust_tickers, "Ticker")

\* features.load_ohlcv_data(file_path)
load_ohlcv_data(files, file_path) ==
    IF HasFile(files, OhlcvFile)
    THEN [outcome |-> Returned, file_path |-> file_path,
          df |-> ReadCsv(FileAt(files, OhlcvFile), <<1, 0>>)]
    ELSE [outcome |-> FileNotFound, file_path |-> file_path, df |-> NoData]

InitIO ==
    /\ dfs = <<NoFrame, NoFrame>>
    /\ calls = <<NoCall, NoCall>>
    /\ rng = seed(Seed)
    /\ fs = NoFiles
    /\ loaded = NotLoaded

\* get_ohlcv_data(tickers, start_date, end_date): an empty ticker list leaves
\* an empty frame without a Ticker column, set_index raises KeyError and no
\* file is written.
GetOhlcvData(tickers, history, bar, adj) ==
    /\ fs' = IF tickers = <<>> THEN fs
             ELSE WriteFile(fs, OhlcvFile, ToCsv(get_ohlcv_data(tickers, history, bar, adj)))
    /\ UNCHANGED <<dfs, calls, rng, loaded>>

\* The file written by an earlier run is kept under another name.
ArchiveCopy ==
    /\ HasFile(fs, OhlcvFile)
    /\ fs' = WriteFile(fs, ArchiveFile, FileAt(fs, OhlcvFile))
    /\ UNCHANGED <<dfs, calls, rng, loaded>>

LoadOhlcvData(file_path) ==
    /\ loaded' = load_ohlcv_data(fs, file_path)
    /\ UNCHANGED <<dfs, calls, rng, fs>>

NextIO ==
    \/ \E tickers \in TickerLists, history \in [Tickers -> Histories],
          bar \in Bars, adj \in BOOLEAN :
            GetOhlcvData(tickers, history, bar, adj)
    \/ ArchiveCopy
    \/ \E file_path \in Paths : LoadOhlcvData(file_path)

SpecIO == InitIO /\ [][NextIO]_vars

(***************************************************************************)
(* Properties                                                              *)
(***************************************************************************)
Slots == 1 .. 2
RowsOf(t) == 1 .. Len(dfs[t].rows)
Cell(t, i, name) == dfs[t].rows[i][name]
Augmented(t) == calls[t].outcome = Returned
SameArgs(t, u) ==
    /\ calls[t].spread_coeff = calls[u].spread_coeff
    /\ calls[t].sigma_noise = calls[u].sigma_noise
SameBar(t, i, u, j) ==
    /\ Cell(t, i, "High") = Cell(u, j, "High")
    /\ Cell(t, i, "Low") = Cell(u, j, "Low")

\* C1 (as stated): after add_execution_price returns, every row has
\* execution_price >= 0, and a row whose mid + spread_est/2 + noise is
\* negative has execution_price exactly 0.
C1_ExecutionPriceNonNegative ==
    \A t \in Slots : Augmented(t) =>
        \A i \in RowsOf(t) :
            /\ Ge(Cell(t, i, "execution_price"), Zero)
            /\ Lt(calls[t].unclamped[i], Zero) => Cell(t, i, "execution_price") = Zero

\* C1 (amended): after add_execution_price returns, every row whose
\* mid + spread_est/2 + noise is not NaN has execution_price >= 0, exactly 0
\* when that sum is negative; a row where the sum is NaN keeps NaN.
C1_NonNegativeUnlessNaN ==
    \A t \in Slots : Augmented(t) =>
        \A i \in RowsOf(t) :
            LET u == calls[t].unclamped[i]
                e == Cell(t, i, "execution_price")
            IN  /\ IsNaN(u) => IsNaN(e)
                /\ ~IsNaN(u) => Ge(e, Zero)
                /\ Lt(u, Zero) => e = Zero

\* A returned table with a row whose unclamped price was negative and is now 0.
C1_Witness ==
    /\ Augmented(1)
    /\ \E i \in RowsOf(1) :
          Lt(calls[1].unclamped[i], Zero) /\ Cell(1, i, "execution_price") = Zero

\* C4: every call ends either with the table carrying all three derived
\* columns, or with an explicit error naming the missing column or the
\* violated precondition; when High or Low is missing the table is exactly as
\* it was handed in, with no derived column written.
C4_AugmentedOrExplicitError ==
    \A t \in Slots :
        LET o == calls[t].outcome
            cols == dfs[t].cols
        IN  o # NotCalled =>
              /\ \/ o = Returned /\ {"High", "Low"} \cup Derived \subseteq cols
                 \/ o = KeyErrorHigh /\ "High" \notin cols
                 \/ o = KeyErrorLow /\ "High" \in cols /\ "Low" \notin cols
                 \/ o = ValueErrorScale /\ Lt(calls[t].sigma_noise, Zero)
              /\ ("High" \notin cols \/ "Low" \notin cols) =>
                    /\ o \in {KeyErrorHigh, KeyErrorLow}
                    /\ cols \cap Derived = {}
                    /\ \E bs \in BarLists : dfs[t] = Frame(cols, bs)

\* A call on a non-empty table without Low has failed with KeyError: 'Low'.
C4_Witness ==
    /\ calls[1].outcome = KeyErrorLow
    /\ Len(dfs[1].rows) > 0

\* C5: a call of add_execution_price that returns the augmented table leaves
\* the process-wide random generator in the state it found it in.
C5_GeneratorUntouched ==
    [][((\E c \in Coeffs, s \in Sigmas : AddExecutionPrice(1, c, s))
            /\ calls'[1].outcome = Returned) => rng' = rng]_vars

\* C6: once the derived columns are written, every row has
\* 2 * mid = High + Low, and every row with mid # 0 has
\* spread_est * mid = spread_coeff * (High - Low), whatever sigma_noise and
\* the noise drawn.
C6_MidAndSpreadEst ==
    \A t \in Slots : calls[t].outcome \in {Returned, ValueErrorScale} =>
        \A i \in RowsOf(t) :
            /\ Mul(Cell(t, i, "mid"), Two) = Add(Cell(t, i, "High"), Cell(t, i, "Low"))
            /\ Cell(t, i, "mid") # Zero =>
                  Mul(Cell(t, i, "spread_est"), Cell(t, i, "mid"))
                    = Mul(calls[t].spread_coeff,
                          Sub(Cell(t, i, "High"), Cell(t, i, "Low")))

\* The bar High = 105, Low = 95 with spread_coeff = 0.1: mid = 100 and
\* spread_est = 0.01.
C6_Witness ==
    /\ Augmented(1)
    /\ calls[1].spread_coeff = <<1, 10>>
    /\ \E i \in RowsOf(1) :
          /\ Cell(1, i, "High") = <<105, 1>>
          /\ Cell(1, i, "Low") = <<95, 1>>
          /\ Cell(1, i, "mid") = <<100, 1>>
          /\ Cell(1, i, "spread_est") = <<1, 100>>

\* C8: a call on a table with High and Low and a non-negative sigma_noise
\* raises nothing; a row with mid = 0 gets a non-finite spread_est and a
\* non-finite execution_price, and the rows with mid # 0 get finite values.
C8_ZeroMidNonFinite ==
    \A t \in Slots :
        /\ (calls[t].outcome # NotCalled /\ {"High", "Low"} \subseteq dfs[t].cols
                /\ ~Lt(calls[t].sigma_noise, Zero)) => Augmented(t)
        /\ Augmented(t) =>
              \A i \in RowsOf(t) :
                  IF Cell(t, i, "mid") = Zero
                  THEN /\ ~IsFinite(Cell(t, i, "spread_est"))
                       /\ ~IsFinite(Cell(t, i, "execution_price"))
                  ELSE /\ IsFinite(Cell(t, i, "spread_est"))
                       /\ IsFinite(Cell(t, i, "execution_price"))

\* A returned table holding a row with mid = 0 next to a row with mid # 0.
C8_Witness ==
    /\ Augmented(1)
    /\ \E i, j \in RowsOf(1) :
          /\ Cell(1, i, "mid") = Zero
          /\ ~IsFinite(Cell(1, i, "execution_price"))
          /\ Cell(1, j, "mid") # Zero

\* C2: two calls on tables with equal High and Low columns, with equal
\* spread_coeff and sigma_noise, give equal execution_price columns, whatever
\* was drawn from the process-wide generator before or between them.
C2_Deterministic ==
    (/\ Augmented(1) /\ Augmented(2) /\ SameArgs(1, 2)
     /\ Column(dfs[1], "High") = Column(dfs[2], "High")
     /\ Column(dfs[1], "Low") = Column(dfs[2], "Low"))
        => Column(dfs[1], "execution_price") = Column(dfs[2], "execution_price")

\* Two equal non-empty tables augmented with the same arguments and visible
\* noise, the generator having been used by other code since.
C2_Witness ==
    /\ Augmented(1) /\ Augmented(2) /\ SameArgs(1, 2)
    /\ Len(dfs[1].rows) > 0
    /\ Column(dfs[1], "High") = Column(dfs[2], "High")
    /\ Column(dfs[1], "Low") = Column(dfs[2], "Low")
    /\ calls[1].sigma_noise = <<3, 1>>
    /\ rng # RngAfter(seed(Seed), Len(dfs[1].rows))

\* C3 (as stated): mid, spread_est and execution_price of a bar depend only
\* on its High and Low and the parameters: two rows with the same High and
\* Low, in the same table or in a permuted, shortened or lengthened one,
\* augmented with the same parameters, carry the same three derived values.
C3_RowsIndependent ==
    \A t \in Slots, u \in Slots :
        (Augmented(t) /\ Augmented(u) /\ SameArgs(t, u)) =>
            \A i \in RowsOf(t), j \in RowsOf(u) :
                SameBar(t, i, u, j) =>
                    /\ Cell(t, i, "mid") = Cell(u, j, "mid")
                    /\ Cell(t, i, "spread_est") = Cell(u, j, "spread_est")
                    /\ Cell(t, i, "execution_price") = Cell(u, j, "execution_price")

\* C3 (amended): mid and spread_est of a bar depend only on its High and Low
\* and spread_coeff; execution_price depends on them, on sigma_noise and on
\* the position of the row in its table: rows with the same High and Low
\* carry the same mid and spread_est, and the same execution_price when they
\* stand at the same position.
C3_IndependentUpToPosition ==
    \A t \in Slots, u \in Slots :
        (Augmented(t) /\ Augmented(u)) =>
            \A i \in RowsOf(t), j \in RowsOf(u) :
                SameBar(t, i, u, j) =>
                    /\ calls[t].spread_coeff = calls[u].spread_coeff =>
                          /\ Cell(t, i, "mid") = Cell(u, j, "mid")
                          /\ Cell(t, i, "spread_est") = Cell(u, j, "spread_est")
                    /\ (SameArgs(t, u) /\ i = j) =>
                          Cell(t, i, "execution_price") = Cell(u, j, "execution_price")

\* Two tables of different length augmented with the same parameters that
\* share a bar at the same position, with equal execution_price, and a bar
\* at different positions, with different execution_price.
C3_Witness ==
    /\ Augmented(1) /\ Augmented(2) /\ SameArgs(1, 2)
    /\ Len(dfs[1].rows) # Len(dfs[2].rows)
    /\ \E i \in RowsOf(1) \cap RowsOf(2) :
          /\ SameBar(1, i, 2, i)
          /\ Cell(1, i, "mid") # Zero
          /\ Cell(1, i, "execution_price") = Cell(2, i, "execution_price")
    /\ \E i \in RowsOf(1), j \in RowsOf(2) :
          /\ i # j
          /\ SameBar(1, i, 2, j)
          /\ Cell(1, i, "execution_price") # Cell(2, j, "execution_price")

\* C7: for a bar with High > Low augmented with spread_coeff c1 in one table
\* and c2 > c1 in the other, spread_est is strictly greater under c2.
C7_SpreadIncreasing ==
    \A t \in Slots, u \in Slots :
        (Augmented(t) /\ Augmented(u)
            /\ Lt(calls[t].spread_coeff, calls[u].spread_coeff)) =>
            \A i \in RowsOf(t), j \in RowsOf(u) :
                (SameBar(t, i, u, j) /\ Lt(Cell(t, i, "Low"), Cell(t, i, "High"))) =>
                    Lt(Cell(t, i, "spread_est"), Cell(u, j, "spread_est"))

\* The same bar with High > Low augmented under two different coefficients.
C7_Witness ==
    /\ Augmented(1) /\ Augmented(2)
    /\ Lt(calls[1].spread_coeff, calls[2].spread_coeff)
    /\ \E i \in RowsOf(1), j \in RowsOf(2) :
          /\ SameBar(1, i, 2, j)
          /\ Lt(Cell(1, i, "Low"), Cell(1, i, "High"))
          /\ Lt(Cell(1, i, "spread_est"), Cell(2, j, "spread_est"))

\* C9: the table load_ohlcv_data returns is indexed by (Ticker, Date), Ticker
\* the outer level, as get_ohlcv_data saved it.
C9_LoadedIndexTickerDate ==
    loaded.outcome = Returned => loaded.df.index = <<"Ticker", "Date">>

\* C10: load_ohlcv_data(file_path) returns the table stored at file_path.
C10_LoadsGivenPath ==
    [][\A p \in Paths :
          (LoadOhlcvData(p) /\ HasFile(fs, p)) =>
              loaded'.df = ReadCsv(FileAt(fs, p), <<1, 0>>)]_vars

====
